---- MODULE Spec2Model ----
(***************************************************************************)
(* Offline-first synchronisation core of FiCore personal finance:          *)
(*   static/js/offline-manager.js   OfflineManager (durable queue, drain)  *)
(*   static/js/offline-forms.js     OfflineFormsHandler (form writes)      *)
(*   static/js/offline-dashboard.js OfflineDashboard (connectivity)        *)
(*   static/service-worker.js       install, activate, fetch and sync      *)
(*                                                                         *)
(* The runtime is single threaded: one callback runs at a time and an      *)
(* async function gives up control only at an await.  Every action below   *)
(* is one such run-to-suspension segment.  An awaited durable-store        *)
(* request either settles or rejects (the code wraps each in try/catch);   *)
(* an awaited network request settles with one of Outcomes.                *)
(***************************************************************************)
EXTENDS Integers, Sequences, FiniteSets, Bags, TLC

\* ------------------------------------------------------------------ bounds
MaxQueue == 2       \* records the offlineActions store may hold in the model
MaxDrains == 2      \* syncOfflineData() activations alive at the same time
RandRes == 2        \* distinct values Math.random() takes in the model
MaxRefresh == 1     \* refreshData calls of the dashboard in flight in the model
MaxTime == 2        \* milliseconds the clock of the cachedData store runs in the model
MaxPrev == 2        \* requests of the replaced version in flight in the model
MaxEntries == 1     \* entries the fetch handlers may add to the caches in the model

\* ------------------------------------------------------------------ state
VARIABLES
    mgr,         \* window.offlineManager: "absent" | "initializing" | "ready" | "failed"
    db,          \* this.db is not null
    navOnline,   \* navigator.onLine, the platform's connectivity
    isOnline,    \* OfflineManager.isOnline
    now,         \* Date.now(), counted in the milliseconds in which a record was stored
    queue,       \* object store offlineActions, in insertion order
    drains,      \* activations of OfflineManager.syncOfflineData
    sub,         \* the form submission being handled by OfflineFormsHandler
    syncStatus,  \* pending count last written to #sync-status (-1: never)
    acked,       \* ids of actions whose replay has received a 2xx response
    posted,      \* messages the service worker posted to the page in the last step
    caches,      \* CacheStorage of the service worker: cache name -> (url -> body)
    fe,          \* the fetch event the service worker is handling
    prev,        \* the version of the service worker this one replaces: the
                 \* caches of its CACHE_VERSION that exist, and for each of its
                 \* requests in flight the cache its handler opens; and the
                 \* take-over: whether the deletion of the old caches and
                 \* clients.claim() have completed, the windows in scope,
                 \* those this version controls, those sent SW_UPDATED
    cd,          \* object store cachedData (key -> record), the last call of
                 \* setCachedData / getCachedData, and for each key the last
                 \* setCachedData that returned true
    dash,        \* window.offlineDashboard: whether the page has one, its
                 \* isOnline, and its refreshData calls waiting for the network
    replay       \* a call of syncSingleAction followed on its own: the action
                 \* it was given, the CSRF token of the page, and what it
                 \* passed to fetch

vars == <<mgr, db, navOnline, isOnline, now, queue, drains, sub, syncStatus, acked,
          posted, caches, fe, prev, cd, dash, replay>>

\* How an awaited fetch ends: a response with ok status whose body parses as
\* JSON, an ok response whose body does not, a response with another status
\* (body parsing or not), or a rejection (no response).
Outcomes == {"ok", "okBadBody", "notOk", "notOkBadBody", "reject"}
Is2xx(o) == o \in {"ok", "okBadBody"}

\* syncSingleAction never reads the body of a response that is not ok.
ReplayOutcomes == {"ok", "okBadBody", "notOk", "reject"}

SyncTag == "sync-offline-data"
Tags == {SyncTag, "other-tag"}

\* sub: st, where handleFormSubmission stands; path, the branch it took;
\* reply, how the fetch of the online branch ended; stored, what
\* storeOfflineAction returned ("threw": the call threw); ret, what the
\* handler returned; shown, the messages put on the page; enq and net, the
\* queue records created and the network requests issued for the submission.
IdleSub == [st |-> "idle", path |-> "none", reply |-> "none", stored |-> "none",
            ret |-> "none", shown |-> {}, enq |-> 0, net |-> 0]
\* ------------------------------------------------------- the durable store
Ids(q) == {q[i].id : i \in DOMAIN q}

Unsynced(q) == {q[i] : i \in {j \in DOMAIN q : ~q[j].synced}}

\* A count that does not look at the index key: every record is counted.
countRecords(q) == Len(q)

\* index.count(false)
countUnsynced(q) == Cardinality(Unsynced(q))

\* A getAll that ignores the index key and returns every record.
getAllRecords(q) ==
    CHOOSE s \in [1..Len(q) -> {q[i] : i \in DOMAIN q}] :
        \A i, j \in 1..Len(q) : i < j => s[i].id < s[j].id

\* index.getAll(false): every record of the index has the same index key, so
\* the result is ordered by the primary key, the keyPath 'id'.
getAllUnsynced(q) ==
    LET S == Unsynced(q)
    IN  CHOOSE s \in [1..Cardinality(S) -> S] :
            \A i, j \in 1..Cardinality(S) : i < j => s[i].id < s[j].id

\* A put that drops the record it was given instead of writing it.
putDeletes(q, rec) ==
    LET keep == {i \in DOMAIN q : q[i].id # rec.id}
        n == Cardinality(keep)
    IN  [i \in 1..n |-> q[CHOOSE j \in keep : Cardinality({m \in keep : m < j}) = i - 1]]

\* A put that stamps the record it writes with another time.
putRestamped(q, rec) ==
    IF rec.id \in Ids(q)
    THEN [i \in DOMAIN q |-> IF q[i].id = rec.id
                             THEN [rec EXCEPT !.timestamp = @ + 1] ELSE q[i]]
    ELSE Append(q, [rec EXCEPT !.timestamp = @ + 1])

\* store.put(record): the record with the same key is replaced whole, a
\* record with a new key is added.
put(q, rec) ==
    IF rec.id \in Ids(q)
    THEN [i \in DOMAIN q |-> IF q[i].id = rec.id THEN rec ELSE q[i]]
    ELSE Append(q, rec)

\* An actionData that is born synced.
actionDataSynced(t, r) == [id |-> t * RandRes + r, timestamp |-> t, synced |-> TRUE]

\* actionData of storeOfflineAction: t is Date.now(), r is Math.random()
\* scaled to 0..RandRes-1, so that id stands for Date.now() + Math.random().
actionData(t, r) == [id |-> t * RandRes + r, timestamp |-> t, synced |-> FALSE]

\* A storeOfflineAction whose catch block answers true.
storeOfflineActionCatchTrue(q, hasDb, addOk, t, r) ==
    IF ~hasDb
    THEN [ret |-> "false", queue |-> q, notified |-> FALSE]
    ELSE IF addOk /\ (t * RandRes + r) \notin Ids(q)
         THEN [ret |-> "true",
               queue |-> Append(q, [id |-> t * RandRes + r, timestamp |-> t, synced |-> FALSE]),
               notified |-> TRUE]
         ELSE [ret |-> "true", queue |-> q, notified |-> FALSE]

\* OfflineManager.storeOfflineAction.  addOk: the add request does not fail
\* for a reason of the store's own; a key already present always fails it.
\* Result: what it returns, the store afterwards, whether updateSyncStatus
\* and the 'Action saved offline' notification ran.
storeOfflineAction(q, hasDb, addOk, t, r) ==
    IF ~hasDb
    THEN [ret |-> "false", queue |-> q, notified |-> FALSE]
    ELSE IF addOk /\ actionData(t, r).id \notin Ids(q)
         THEN [ret |-> "true", queue |-> Append(q, actionData(t, r)), notified |-> TRUE]
         ELSE [ret |-> "false", queue |-> q, notified |-> FALSE]

\* ------------------------------------------------------------ form writes
\* A handleOfflineSubmission that does not look at what storeOfflineAction
\* returned before it reports success.
handleOfflineSubmissionNoCheck(m, q, hasDb, addOk, lsOk, t, r) ==
    IF m = "absent"
    THEN [ret |-> "false", queue |-> q, stored |-> "threw", notified |-> FALSE,
          shown |-> {"error: Failed to save data offline."}]
    ELSE LET s == storeOfflineAction(q, hasDb, addOk, t, r)
         IN  [ret |-> s.ret, queue |-> s.queue, stored |-> s.ret,
              notified |-> s.notified,
              shown |-> {"success: Data saved offline."}]

\* OfflineFormsHandler.handleOfflineSubmission.  m is window.offlineManager's
\* state: when it is absent the call on it throws and the catch block runs.
\* lsOk: saveFormState's localStorage.setItem does not throw.
handleOfflineSubmission(m, q, hasDb, addOk, lsOk, t, r) ==
    IF m = "absent"
    THEN [ret |-> "false", queue |-> q, stored |-> "threw", notified |-> FALSE,
          shown |-> {"error: Failed to save data offline."}]
    ELSE LET s == storeOfflineAction(q, hasDb, addOk, t, r)
         IN  IF s.ret = "true"
             THEN IF lsOk
                  THEN [ret |-> "true", queue |-> s.queue, stored |-> "true",
                        notified |-> s.notified,
                        shown |-> {"info: Action saved offline.",
                                   "success: Data saved offline."}]
                  ELSE [ret |-> "false", queue |-> s.queue, stored |-> "true",
                        notified |-> s.notified,
                        shown |-> {"info: Action saved offline.",
                                   "success: Data saved offline.",
                                   "error: Failed to save data offline."}]
             ELSE [ret |-> "false", queue |-> s.queue, stored |-> "false",
                   notified |-> s.notified,
                   shown |-> {"error: Failed to save data offline."}]

\* The branch of handleFormSubmission: offline exactly when the manager
\* exists and its isOffline() answers true.
takesOfflinePath(m, online) == m # "absent" /\ ~online

\* The catch block of handleOnlineSubmission enqueues only when the platform
\* reports no connectivity.
catchEnqueues(nav) == ~nav

\* ----------------------------------------------------------------- drains
\* syncSingleAction resolves only for a 2xx response whose body parses.
replaySucceeds(o) == o = "ok"

\* drains is the bag of the activations of syncOfflineData that have not
\* returned; nothing in the code orders them or tells two of them apart.
\* An activation is what is left of its unsyncedActions array: the action
\* whose replay is in flight, then the actions the for..of loop has still
\* to visit.
Running == BagToSet(drains)
Current(d) == Head(d)

\* A loop that leaves at the first item instead of going on.
afterItemAborts(ds, d) == ds (-) SetToBag({d})

\* The activations after the request of activation d has settled: the
\* for..of loop goes on to the next item whatever happened to this one, and
\* the activation returns after the last item.
afterItem(ds, d) ==
    IF Len(d) > 1
    THEN (ds (-) SetToBag({d})) (+) SetToBag({Tail(d)})
    ELSE ds (-) SetToBag({d})

\* ------------------------------------------------------ the replay request
\* The actions handed to storeOfflineAction, as far as syncSingleAction
\* reads them.  method "absent": the action has no method; a headers
\* object with no key: the action has no headers, or an empty object, which
\* the spread treats alike; body "absent": the action has no body.
ReplayUrls == {"/api/bills", "/budget/new"}
ReplayMethods == {"absent", "POST", "PUT"}
ReplayBodies == {"absent", "{}", "{\"amount\":1}"}
HeaderNames == {"Content-Type", "X-CSRFToken", "Authorization"}
HeaderValues == {"application/json", "text/plain"}
StoredHeaders == UNION {[S -> HeaderValues] : S \in SUBSET HeaderNames}
ReplayActions ==
    [url : ReplayUrls, method : ReplayMethods, headers : StoredHeaders, body : ReplayBodies]

\* getCSRFToken(): the content of the csrf-token meta element, or ''.
CsrfTokens == {"", "token"}

\* { ...a, ...b }: the keys of both, a key of both with the value of b.
spread(a, b) == [k \in DOMAIN a \cup DOMAIN b |-> IF k \in DOMAIN b THEN b[k] ELSE a[k]]

\* The headers syncSingleAction writes before it spreads action.headers.
defaultHeaders(csrf) ==
    [k \in {"Content-Type", "X-CSRFToken"} |->
        IF k = "Content-Type" THEN "application/json" ELSE csrf]

\* A syncSingleAction that spreads action.headers first.
syncSingleActionDefaultsLast(action, csrf) ==
    [url |-> action.url,
     method |-> IF action.method = "absent" THEN "POST" ELSE action.method,
     headers |-> spread(action.headers, defaultHeaders(csrf)),
     body |-> action.body]

\* The arguments of the fetch of syncSingleAction(action).
syncSingleAction(action, csrf) ==
    [url |-> action.url,
     method |-> IF action.method = "absent" THEN "POST" ELSE action.method,
     headers |-> spread(defaultHeaders(csrf), action.headers),
     body |-> action.body]

NoReplay ==
    [called |-> FALSE, csrf |-> "",
     action |-> [url |-> "none", method |-> "none", headers |-> <<>>, body |-> "none"],
     request |-> [url |-> "none", method |-> "none", headers |-> <<>>, body |-> "none"]]

\* ------------------------------------------------------------------- Init
Init ==
    /\ mgr \in {"absent", "initializing"}
    /\ db = FALSE
    /\ navOnline \in BOOLEAN
    /\ isOnline = navOnline
    /\ now = 0
    /\ queue = <<>>
    /\ drains = EmptyBag
    /\ sub = IdleSub
    /\ syncStatus = -1
    /\ acked = {}
    /\ posted = <<>>
    /\ caches = [n \in {"ficore-static-v2.1", "ficore-dynamic-v2.1", "ficore-api-v2.1"} |->
                    [u \in {} |-> "none"]]
    /\ fe = [st |-> "installing",
             request |-> [method |-> "none", protocol |-> "none", pathname |-> "none",
                          accept |-> "none"],
             intercepted |-> FALSE, strategy |-> "none", hit |-> FALSE, outcome |-> "none",
             sent |-> "none", wrote |-> FALSE,
             resp |-> [from |-> "none", kind |-> "none", status |-> 0, body |-> "none"],
             net |-> 0]
    /\ prev = [names |-> {"ficore-static-v2.0", "ficore-dynamic-v2.0", "ficore-api-v2.0"},
               flight |-> EmptyBag, deleted |-> FALSE, claimed |-> FALSE,
               clients |-> {"window-1"}, controlled |-> {}, notified |-> {}]
    /\ dash = [present |-> FALSE, isOnline |-> FALSE, refreshing |-> 0]
    /\ cd = [store |-> [k \in {} |-> 0],
             call |-> [op |-> "none", key |-> "none", failed |-> FALSE, ret |-> "none"],
             last |-> [k \in {} |-> 0]]
    /\ replay = NoReplay

\* ---------------------------------------------------------------- actions
\* The clock advances.  Only the order of the timestamps matters, so the
\* milliseconds in which nothing was stored are not counted.
Tick ==
    /\ \E i \in DOMAIN queue : queue[i].timestamp = now
    /\ now' = now + 1
    /\ posted' = <<>>
    /\ UNCHANGED <<mgr, db, navOnline, isOnline, queue, drains, sub, syncStatus, acked, caches, fe,
                   prev, cd, dash, replay>>

\* init(): initIndexedDB resolved; listeners are registered only now.
InitDone ==
    /\ mgr = "initializing"
    /\ mgr' = "ready"
    /\ db' = TRUE
    /\ posted' = <<>>
    /\ UNCHANGED <<navOnline, isOnline, now, queue, drains, sub, syncStatus, acked, caches, fe,
                   prev, cd, dash, replay>>

\* init(): initIndexedDB rejected; db stays null, no listener is registered.
InitFail ==
    /\ mgr = "initializing"
    /\ mgr' = "failed"
    /\ posted' = <<>>
    /\ UNCHANGED <<db, navOnline, isOnline, now, queue, drains, sub, syncStatus, acked, caches, fe,
                   prev, cd, dash, replay>>

\* The 'offline' and 'online' listeners of OfflineDashboard, registered in
\* its constructor; the second goes on into refreshData, which sends its
\* request since isOnline is now true.
dashboardOffline(d) == [d EXCEPT !.isOnline = FALSE]
dashboardOnline(d) == [d EXCEPT !.isOnline = TRUE, !.refreshing = @ + 1]

\* window 'offline' event.
OfflineEvent ==
    /\ navOnline
    /\ navOnline' = FALSE
    /\ isOnline' = IF mgr = "ready" THEN FALSE ELSE isOnline
    /\ dash' = IF dash.present THEN dashboardOffline(dash) ELSE dash
    /\ posted' = <<>>
    /\ UNCHANGED <<mgr, db, now, queue, drains, sub, syncStatus, acked, caches, fe, prev, cd,
                   replay>>

\* window 'online' event: the listener sets isOnline and calls
\* syncOfflineData(), which runs up to its first network request.
OnlineEvent ==
    /\ ~navOnline
    /\ navOnline' = TRUE
    /\ IF mgr # "ready"
       THEN UNCHANGED <<isOnline, drains, syncStatus>>
       ELSE /\ isOnline' = TRUE
            /\ \E getAllOk \in BOOLEAN :
                 IF ~getAllOk
                 THEN UNCHANGED <<drains, syncStatus>>
                 ELSE LET unsyncedActions == getAllUnsynced(queue)
                      IN  IF unsyncedActions = <<>>
                          THEN /\ syncStatus' = countUnsynced(queue)
                               /\ UNCHANGED drains
                          ELSE /\ BagCardinality(drains) < MaxDrains
                               /\ drains' = drains (+) SetToBag({unsyncedActions})
                               /\ UNCHANGED syncStatus
    /\ IF dash.present
       THEN /\ dash.refreshing < MaxRefresh
            /\ dash' = dashboardOnline(dash)
       ELSE UNCHANGED dash
    /\ posted' = <<>>
    /\ UNCHANGED <<mgr, db, now, queue, sub, acked, caches, fe, prev, cd, replay>>

\* The replay request of activation d settles with outcome o; on success the
\* record is marked synced and put back (putOk: the put does not fail); then
\* the loop issues the next request or the pass ends with updateSyncStatus.
DrainSettle(d, o, putOk) ==
    /\ d \in Running
    /\ LET action == Current(d)
           q2 == IF replaySucceeds(o) /\ putOk
                 THEN put(queue, [action EXCEPT !.synced = TRUE])
                 ELSE queue
       IN  /\ queue' = q2
           /\ acked' = IF Is2xx(o) THEN acked \cup {action.id} ELSE acked
           /\ drains' = afterItem(drains, d)
           /\ syncStatus' = IF Len(d) > 1 THEN syncStatus ELSE countUnsynced(q2)
    /\ posted' = <<>>
    /\ UNCHANGED <<mgr, db, navOnline, isOnline, now, sub, caches, fe, prev, cd, dash, replay>>

\* The application calls saveForLater / handleOfflineForm, which enqueue.
SaveForLater(addOk, r) ==
    /\ mgr # "absent"
    /\ Len(queue) + (IF sub.st = "fetching" THEN 1 ELSE 0) < MaxQueue
    /\ LET s == storeOfflineAction(queue, db, addOk, now, r)
       IN  /\ queue' = s.queue
           /\ syncStatus' = IF s.notified THEN countUnsynced(s.queue) ELSE syncStatus
    /\ posted' = <<>>
    /\ UNCHANGED <<mgr, db, navOnline, isOnline, now, drains, sub, acked, caches, fe, prev,
                   cd, dash, replay>>

\* The listener on document has a submit event of an offline-capable
\* form: handleFormSubmission.
SubmitForm(addOk, lsOk, r) ==
    /\ sub.st # "fetching"
    /\ Len(queue) < MaxQueue
    /\ IF takesOfflinePath(mgr, isOnline)
       THEN LET h == handleOfflineSubmission(mgr, queue, db, addOk, lsOk, now, r)
            IN  /\ queue' = h.queue
                /\ syncStatus' = IF h.notified THEN countUnsynced(h.queue) ELSE syncStatus
                /\ sub' = [st |-> "done", path |-> "offline", reply |-> "none",
                           stored |-> h.stored, ret |-> h.ret, shown |-> h.shown,
                           enq |-> Len(h.queue) - Len(queue), net |-> 0]
       ELSE /\ sub' = [st |-> "fetching", path |-> "online", reply |-> "none",
                       stored |-> "none", ret |-> "none", shown |-> {},
                       enq |-> 0, net |-> 1]
            /\ UNCHANGED <<queue, syncStatus>>
    /\ posted' = <<>>
    /\ UNCHANGED <<mgr, db, navOnline, isOnline, now, drains, acked, caches, fe, prev, cd, dash,
                   replay>>

\* The offline-capable forms, as far as the submit listeners look at them:
\* empty, some [required] field has a value that is blank once trimmed;
\* bound, the form was in the document when OfflineFormsHandler was
\* constructed, so that setupValidation put its listener on it.
Forms == [empty : BOOLEAN, bound : BOOLEAN]

\* validateForm(form)
validateForm(form) == ~form.empty

\* The submit event reaches the listener on document: a listener of
\* setupValidation, on the form itself, stops it when validateForm fails.
reachesDocument(form) == ~(form.bound /\ ~validateForm(form))

\* A submit event of an offline-capable form: the listener of
\* setupValidation, if the form has one, and then, if the event gets
\* there, the listener on document with handleFormSubmission.
SubmitEvent(form, addOk, lsOk, r) ==
    IF reachesDocument(form)
    THEN SubmitForm(addOk, lsOk, r)
    ELSE /\ sub.st # "fetching"
         /\ sub' = [st |-> "done", path |-> "stopped", reply |-> "none", stored |-> "none",
                    ret |-> "none", shown |-> {"field-error: This field is required"},
                    enq |-> 0, net |-> 0]
         /\ posted' = <<>>
         /\ UNCHANGED <<mgr, db, navOnline, isOnline, now, queue, drains, syncStatus, acked,
                        caches, fe, prev, cd, dash, replay>>

\* The fetch of handleOnlineSubmission settles with outcome o.
SubmitSettle(o, addOk, lsOk, r) ==
    /\ sub.st = "fetching"
    /\ IF o = "ok"
       THEN /\ sub' = [sub EXCEPT !.st = "done", !.reply = o, !.ret = "true",
                                  !.shown = {"success: Data saved successfully!"}]
            /\ UNCHANGED <<queue, syncStatus>>
       ELSE IF o = "notOk"
       THEN /\ sub' = [sub EXCEPT !.st = "done", !.reply = o, !.ret = "false",
                                  !.shown = {"error: Failed to save data."}]
            /\ UNCHANGED <<queue, syncStatus>>
       ELSE IF catchEnqueues(navOnline)
       THEN LET h == handleOfflineSubmission(mgr, queue, db, addOk, lsOk, now, r)
            IN  /\ queue' = h.queue
                /\ syncStatus' = IF h.notified THEN countUnsynced(h.queue) ELSE syncStatus
                /\ sub' = [sub EXCEPT !.st = "done", !.reply = o, !.stored = h.stored,
                                      !.ret = h.ret, !.shown = h.shown,
                                      !.enq = Len(h.queue) - Len(queue)]
       ELSE /\ sub' = [sub EXCEPT !.st = "done", !.reply = o, !.ret = "false",
                                  !.shown = {"error: Network error. Please try again."}]
            /\ UNCHANGED <<queue, syncStatus>>
    /\ posted' = <<>>
    /\ UNCHANGED <<mgr, db, navOnline, isOnline, now, drains, acked, caches, fe, prev, cd, dash,
                   replay>>

\* -------------------------------------------------- service worker sync
\* getOfflineDataFromIDB of service-worker.js: a placeholder, always empty.
getOfflineDataFromIDB == <<>>

\* removeOfflineDataFromIDB of service-worker.js: a placeholder that answers
\* true and leaves the store alone.
removeOfflineDataFromIDB(q, id) == q

\* The for..of loop of the service worker's syncOfflineData over items
\* i..Len(items), outs[i] being the outcome of item i's fetch.
RECURSIVE swReplay(_, _, _, _)
swReplay(items, outs, i, q) ==
    IF i > Len(items) THEN q
    ELSE swReplay(items, outs, i + 1,
                  IF Is2xx(outs[i]) THEN removeOfflineDataFromIDB(q, items[i].id) ELSE q)

\* The keys of the items the service worker's loop sends a request for: one
\* fetch per item of offlineData, in the order of the list.
swRequests(offlineData) == [i \in DOMAIN offlineData |-> offlineData[i].id]

\* A sync listener that does not look at the tag.
startsWorkerDrainAnyTag(tag) == TRUE

\* The 'sync' listener of the service worker calls syncOfflineData for the
\* registered tag only.
startsWorkerDrain(tag) == tag = SyncTag

\* A 'sync' event reaches the service worker.  With the registered tag it
\* runs syncOfflineData and posts SYNC_COMPLETED, on which the manager's
\* message listener (registered once init succeeded) calls updateSyncStatus.
SyncEvent(tag) ==
    /\ navOnline
    /\ IF startsWorkerDrain(tag)
       THEN LET offlineData == getOfflineDataFromIDB
            IN  \E outs \in [1..Len(offlineData) -> Outcomes] :
                  /\ queue' = swReplay(offlineData, outs, 1, queue)
                  /\ syncStatus' = IF mgr = "ready"
                                   THEN countUnsynced(queue') ELSE syncStatus
                  /\ posted' = <<"SYNC_COMPLETED">>
       ELSE /\ UNCHANGED <<queue, syncStatus>>
            /\ posted' = <<>>
    /\ UNCHANGED <<mgr, db, navOnline, isOnline, now, drains, sub, acked, caches, fe, prev,
                   cd, dash, replay>>

\* -------------------------------------------------- service worker fetch
STATIC_CACHE == "ficore-static-v2.1"
DYNAMIC_CACHE == "ficore-dynamic-v2.1"
API_CACHE == "ficore-api-v2.1"

\* The caches in the order the install handler opens them, which is the
\* order caches.match looks through them.
CacheNames == <<STATIC_CACHE, DYNAMIC_CACHE, API_CACHE>>

STATIC_ASSETS ==
    << "/static/css/styles.css",
       "/static/css/bootstrap-icons.min.css",
       "/static/css/newbasefilelooks.css",
       "/static/css/iconslooks.css",
       "/static/css/newhomepagepersonal.css",
       "/static/css/dark_mode_enhancements.css",
       "/static/css/tool-header-fix.css",
       "/static/js/scripts.js",
       "/static/js/interactivity.js",
       "/static/js/offline-manager.js",
       "/static/manifest.json",
       "/static/img/favicon.ico",
       "/static/img/apple-touch-icon.png",
       "/static/img/favicon-32x32.png",
       "/static/img/favicon-16x16.png",
       "/static/img/default_profile.png",
       "/static/img/ficore_africa_logo.png",
       "/static/img/icons/icon-192x192.png",
       "/static/img/icons/icon-512x512.png" >>

NETWORK_FIRST_ROUTES ==
    << "/users/login",
       "/users/logout",
       "/users/signup",
       "/users/forgot_password",
       "/users/reset_password",
       "/users/verify_2fa",
       "/api/notifications/count",
       "/change-language" >>

CACHEABLE_API_ROUTES ==
    << "/dashboard/", "/bills/", "/budget/", "/shopping/", "/reports/",
       "/settings/profile" >>

CACHE_FIRST_ROUTES == << "/general/home", "/general/landing", "/set-language" >>

\* The requests of the model.  The pathnames take every branch of the fetch
\* listener, with one that only starts with a route or an asset and one
\* that stops short of a route; one pathname of each strategy comes with
\* every Accept header, and one pathname with every method and scheme.
Paths ==
    { "/users/login/otp", "/api/notifications/count",
      "/dashboard/summary", "/dashboard", "/general/home",
      "/static/js/scripts.js", "/static/js/scripts.js.map",
      "/api/offline/cache/k" }
Accepts == { "text/html,application/xhtml+xml", "application/json", "*/*" }
Methods == { "GET", "POST" }
Protocols == { "https:", "http:", "chrome-extension:", "moz-extension:" }
Requests ==
    [method : {"GET"}, protocol : {"https:"}, pathname : Paths, accept : {"*/*"}]
    \cup [method : {"GET"}, protocol : {"https:"},
          pathname : {"/users/login/otp", "/dashboard/summary", "/static/js/scripts.js"},
          accept : Accepts]
    \cup [method : Methods, protocol : Protocols,
          pathname : {"/dashboard/summary"}, accept : {"*/*"}]

\* The body of a response: what the install handler stored, what the
\* network sends now, or none.
Installed == "installed"
Live == "live"

\* The bodies the network sends: the content of a url changes over time.
Bodies == {Live, "newer"}

\* request.url: the origin of the service worker is left out.
requestUrl(request) ==
    IF request.protocol = "https:" THEN request.pathname
    ELSE request.protocol \o "//" \o request.pathname

\* cache.put rejects a request whose scheme is not http or https; putOk:
\* the put of a request it takes does write.
putWrites(request, putOk) == putOk /\ request.protocol \in {"http:", "https:"}

\* How the fetch of a GET request ends in the service worker.
FetchOutcomes == {"ok", "notOk", "reject"}

NoRequest == [method |-> "none", protocol |-> "none", pathname |-> "none", accept |-> "none"]
NoResponse == [from |-> "none", kind |-> "none", status |-> 0, body |-> "none"]
NoCache == [u \in {} |-> "none"]

\* String.prototype.startsWith and String.prototype.includes
startsWith(s, t) == Len(s) >= Len(t) /\ SubSeq(s, 1, Len(t)) = t
includes(s, t) == \E i \in 1..(Len(s) - Len(t) + 1) : SubSeq(s, i, i + Len(t) - 1) = t

\* ROUTES.some(route => pathname.startsWith(route))
matchesRoute(routes, pathname) ==
    \E i \in DOMAIN routes : startsWith(pathname, routes[i])

\* A test of the static assets by prefix instead of by equality.
isStaticAssetByPrefix(pathname) ==
    \E i \in DOMAIN STATIC_ASSETS : startsWith(pathname, STATIC_ASSETS[i])

\* STATIC_ASSETS.some(asset => pathname === asset)
isStaticAsset(pathname) ==
    \E i \in DOMAIN STATIC_ASSETS : pathname = STATIC_ASSETS[i]

\* The fetch listener goes on past its first test: the request is a GET and
\* its scheme is not chrome-extension.
intercepts(request) ==
    ~(request.method # "GET" \/ request.protocol = "chrome-extension:")

\* The if / else-if chain of the fetch listener.
selectStrategy(pathname) ==
    IF matchesRoute(NETWORK_FIRST_ROUTES, pathname) THEN "handleNetworkFirst"
    ELSE IF matchesRoute(CACHEABLE_API_ROUTES, pathname) THEN "handleStaleWhileRevalidate"
    ELSE IF matchesRoute(CACHE_FIRST_ROUTES, pathname) THEN "handleCacheFirst"
    ELSE IF isStaticAsset(pathname) THEN "handleCacheFirst"
    ELSE "handleStaleWhileRevalidate"

\* caches.match(request): the entry of the first cache that holds the url.
cachesMatch(c, url) ==
    LET hits == {i \in DOMAIN CacheNames : url \in DOMAIN c[CacheNames[i]]}
    IN  IF hits = {}
        THEN [hit |-> FALSE, body |-> "none"]
        ELSE LET i == CHOOSE i \in hits : \A j \in hits : i <= j
             IN  [hit |-> TRUE, body |-> c[CacheNames[i]][url]]

\* cache.put(request, response) on the cache called name: the entry of the
\* url is replaced whole.
cachePut(c, name, url, body) ==
    [c EXCEPT ![name] = [u \in DOMAIN c[name] \cup {url} |->
                            IF u = url THEN body ELSE c[name][u]]]

\* The response of the network, and a response taken from a cache.
networkResponse(o, body) ==
    [from |-> "network", kind |-> "live",
     status |-> IF o = "ok" THEN 200 ELSE 500, body |-> body]
cachedResponse(m) == [from |-> "cache", kind |-> "stored", status |-> 200, body |-> m.body]

\* A createOfflineResponse that never looks for the cached home page.
createOfflineResponseNoHome(request, c) ==
    IF includes(request.accept, "text/html")
    THEN [from |-> "offline", kind |-> "html", status |-> 200, body |-> "none"]
    ELSE IF includes(request.accept, "application/json")
         THEN [from |-> "offline", kind |-> "json", status |-> 200, body |-> "none"]
         ELSE [from |-> "offline", kind |-> "plain", status |-> 503, body |-> "none"]

\* createOfflineResponse(request)
createOfflineResponse(request, c) ==
    IF includes(request.accept, "text/html")
    THEN LET m == cachesMatch(c, "/general/home")
         IN  IF m.hit
             THEN [from |-> "offline", kind |-> "home", status |-> 200, body |-> m.body]
             ELSE [from |-> "offline", kind |-> "html", status |-> 200, body |-> "none"]
    ELSE IF includes(request.accept, "application/json")
         THEN [from |-> "offline", kind |-> "json", status |-> 200, body |-> "none"]
         ELSE [from |-> "offline", kind |-> "plain", status |-> 503, body |-> "none"]

\* The handlers.  c: the caches when the handler runs; o, body: how the
\* fetch of the request ends and the body of its response; openOk: the
\* caches.open after an ok response does not reject; putOk: the cache.put,
\* which no handler awaits, does write.  Result: the response the handler
\* resolves with, the caches afterwards, the network requests it sent,
\* whether it wrote a cache.
\* A network-first whose catch goes to createOfflineResponse at once.
handleNetworkFirstNoCache(request, c, o, body, openOk, putOk) ==
    LET url == requestUrl(request)
        wrote == o = "ok" /\ putWrites(request, putOk)
    IN  IF o = "reject" \/ (o = "ok" /\ ~openOk)
        THEN [resp |-> createOfflineResponse(request, c), caches |-> c, net |-> 1,
              wrote |-> FALSE]
        ELSE [resp |-> networkResponse(o, body),
              caches |-> IF wrote THEN cachePut(c, DYNAMIC_CACHE, url, body) ELSE c,
              net |-> 1, wrote |-> wrote]

handleNetworkFirst(request, c, o, body, openOk, putOk) ==
    LET url == requestUrl(request)
        m == cachesMatch(c, url)
        caught == IF m.hit THEN cachedResponse(m) ELSE createOfflineResponse(request, c)
        wrote == o = "ok" /\ putWrites(request, putOk)
    IN  IF o = "reject" \/ (o = "ok" /\ ~openOk)
        THEN [resp |-> caught, caches |-> c, net |-> 1, wrote |-> FALSE]
        ELSE [resp |-> networkResponse(o, body),
              caches |-> IF wrote THEN cachePut(c, DYNAMIC_CACHE, url, body) ELSE c,
              net |-> 1, wrote |-> wrote]

\* A cache-first that stores whatever response the network gave.
handleCacheFirstStoresAny(request, c, o, body, openOk, putOk) ==
    LET url == requestUrl(request)
        m == cachesMatch(c, url)
        wrote == o # "reject" /\ putWrites(request, putOk)
    IN  IF m.hit
        THEN [resp |-> cachedResponse(m), caches |-> c, net |-> 0, wrote |-> FALSE]
        ELSE IF o = "reject" \/ ~openOk
             THEN [resp |-> createOfflineResponse(request, c), caches |-> c, net |-> 1,
                   wrote |-> FALSE]
             ELSE [resp |-> networkResponse(o, body),
                   caches |-> IF wrote THEN cachePut(c, STATIC_CACHE, url, body) ELSE c,
                   net |-> 1, wrote |-> wrote]

handleCacheFirst(request, c, o, body, openOk, putOk) ==
    LET url == requestUrl(request)
        m == cachesMatch(c, url)
        wrote == o = "ok" /\ putWrites(request, putOk)
    IN  IF m.hit
        THEN [resp |-> cachedResponse(m), caches |-> c, net |-> 0, wrote |-> FALSE]
        ELSE IF o = "reject" \/ (o = "ok" /\ ~openOk)
             THEN [resp |-> createOfflineResponse(request, c), caches |-> c, net |-> 1,
                   wrote |-> FALSE]
             ELSE [resp |-> networkResponse(o, body),
                   caches |-> IF wrote THEN cachePut(c, STATIC_CACHE, url, body) ELSE c,
                   net |-> 1, wrote |-> wrote]

\* A stale-while-revalidate whose refresh always writes the dynamic cache.
handleStaleWhileRevalidateDynamicOnly(request, c, o, body, openOk, putOk) ==
    LET url == requestUrl(request)
        m == cachesMatch(c, url)
        wrote == o = "ok" /\ openOk /\ putWrites(request, putOk)
    IN  [resp |-> IF m.hit THEN cachedResponse(m)
                  ELSE IF o = "reject"
                       THEN [from |-> "null", kind |-> "none", status |-> 0, body |-> "none"]
                       ELSE networkResponse(o, body),
         caches |-> IF wrote THEN cachePut(c, DYNAMIC_CACHE, url, body) ELSE c,
         net |-> 1,
         wrote |-> wrote]

\* A stale-while-revalidate whose refresh leaves an existing entry alone.
handleStaleWhileRevalidateKeepsEntry(request, c, o, body, openOk, putOk) ==
    LET url == requestUrl(request)
        m == cachesMatch(c, url)
        wrote == o = "ok" /\ openOk /\ putWrites(request, putOk)
    IN  [resp |-> IF m.hit THEN cachedResponse(m)
                  ELSE IF o = "reject"
                       THEN [from |-> "null", kind |-> "none", status |-> 0, body |-> "none"]
                       ELSE networkResponse(o, body),
         caches |-> IF wrote /\ ~m.hit
                    THEN cachePut(c, IF includes(url, "/api/") THEN API_CACHE
                                     ELSE DYNAMIC_CACHE, url, body)
                    ELSE c,
         net |-> 1,
         wrote |-> wrote]

\* fetchPromise is a promise, which is never falsy: without a cached
\* response the handler resolves with what fetchPromise resolves with, the
\* network response or, after .catch(() => null), null.
handleStaleWhileRevalidate(request, c, o, body, openOk, putOk) ==
    LET url == requestUrl(request)
        m == cachesMatch(c, url)
        wrote == o = "ok" /\ openOk /\ putWrites(request, putOk)
    IN  [resp |-> IF m.hit THEN cachedResponse(m)
                  ELSE IF o = "reject"
                       THEN [from |-> "null", kind |-> "none", status |-> 0, body |-> "none"]
                       ELSE networkResponse(o, body),
         caches |-> IF wrote
                    THEN cachePut(c, IF includes(url, "/api/") THEN API_CACHE
                                     ELSE DYNAMIC_CACHE, url, body)
                    ELSE c,
         net |-> 1,
         wrote |-> wrote]

\* event.respondWith(handle...(event.request))
respondWith(strategy, request, c, o, body, openOk, putOk) ==
    IF strategy = "handleNetworkFirst"
    THEN handleNetworkFirst(request, c, o, body, openOk, putOk)
    ELSE IF strategy = "handleCacheFirst"
         THEN handleCacheFirst(request, c, o, body, openOk, putOk)
         ELSE handleStaleWhileRevalidate(request, c, o, body, openOk, putOk)

\* The install event: the three caches are opened and the static assets
\* added; a failure of addAll is caught and logged and leaves the static
\* cache empty.
InstallEvent(addAllOk) ==
    /\ fe.st = "installing"
    /\ caches' = [caches EXCEPT ![STATIC_CACHE] =
                     IF addAllOk
                     THEN [u \in {STATIC_ASSETS[i] : i \in DOMAIN STATIC_ASSETS} |-> Installed]
                     ELSE NoCache]
    /\ fe' = [fe EXCEPT !.st = "installed"]
    /\ posted' = <<>>
    /\ UNCHANGED <<mgr, db, navOnline, isOnline, now, queue, drains, sub, syncStatus, acked,
                   prev, cd, dash, replay>>

\* The caches of the replaced version: the same names under the
\* CACHE_VERSION that was there before it was updated.
PreviousCaches == {"ficore-static-v2.0", "ficore-dynamic-v2.0", "ficore-api-v2.0"}

cacheWhitelist == {STATIC_CACHE, DYNAMIC_CACHE, API_CACHE}

\* The cache names left after caches.delete of every name that is not in
\* the whitelist.
deletesOldCaches(cacheNames) == {n \in cacheNames : n \in cacheWhitelist}

\* The windows in the scope of the service worker.
Clients == {"window-1", "window-2"}

\* self.clients.matchAll(): the windows this version controls.
matchAll(p) == p.controlled

\* A then that runs as soon as one of the two promises has settled.
activationSettledRace(deleted, claimed) == deleted \/ claimed

\* Promise.all([deletion of the old caches, clients.claim()]) has resolved.
activationSettled(deleted, claimed) == deleted /\ claimed

\* The activate event, which skipWaiting() brings on as soon as the install
\* has ended: caches.keys() and clients.claim() are called, and both are
\* under way when the listener returns.
ActivateEvent ==
    /\ fe.st = "installed"
    /\ fe' = [fe EXCEPT !.st = "activating"]
    /\ posted' = <<>>
    /\ UNCHANGED <<mgr, db, navOnline, isOnline, now, queue, drains, sub, syncStatus, acked,
                   caches, prev, cd, dash, replay>>

\* One of the two promises of the activate listener resolves, leaving the
\* take-over as p2.  The then of Promise.all runs once both have: it posts
\* SW_UPDATED to every client matchAll() gives, and the activation ends.
ActivationStep(p2) ==
    IF activationSettled(p2.deleted, p2.claimed) /\ fe.st = "activating"
    THEN /\ prev' = [p2 EXCEPT !.notified = matchAll(p2)]
         /\ posted' = IF matchAll(p2) = {} THEN <<>> ELSE <<"SW_UPDATED">>
         /\ fe' = [fe EXCEPT !.st = "idle"]
    ELSE /\ prev' = p2
         /\ posted' = <<>>
         /\ UNCHANGED fe

\* The caches outside the whitelist have been deleted.
ActivateDeleted ==
    /\ fe.st = "activating"
    /\ ~prev.deleted
    /\ ActivationStep([prev EXCEPT
                          !.names = deletesOldCaches(prev.names \cup cacheWhitelist)
                                        \cap PreviousCaches,
                          !.deleted = TRUE])
    /\ UNCHANGED <<mgr, db, navOnline, isOnline, now, queue, drains, sub, syncStatus, acked,
                   caches, cd, dash, replay>>

\* clients.claim() has resolved: this version controls every window in its
\* scope.
ActivateClaimed ==
    /\ fe.st = "activating"
    /\ ~prev.claimed
    /\ ActivationStep([prev EXCEPT !.controlled = prev.clients, !.claimed = TRUE])
    /\ UNCHANGED <<mgr, db, navOnline, isOnline, now, queue, drains, sub, syncStatus, acked,
                   caches, cd, dash, replay>>

\* A window in the scope opens: it is controlled by the active worker,
\* which is this version from the activate event on.
ClientOpens(w) ==
    /\ w \notin prev.clients
    /\ prev' = [prev EXCEPT !.clients = @ \cup {w},
                            !.controlled = IF fe.st \in {"installing", "installed"}
                                           THEN @ ELSE @ \cup {w}]
    /\ posted' = <<>>
    /\ UNCHANGED <<mgr, db, navOnline, isOnline, now, queue, drains, sub, syncStatus, acked,
                   caches, fe, cd, dash, replay>>

\* A fetch event of the replaced version, which controls the pages until
\* this one has claimed them: its handler goes to the network, and will
\* open the cache called name when the response is ok.
PrevFetchEvent(name) ==
    /\ ~prev.claimed
    /\ BagCardinality(prev.flight) < MaxPrev
    /\ prev' = [prev EXCEPT !.flight = @ (+) SetToBag({name})]
    /\ posted' = <<>>
    /\ UNCHANGED <<mgr, db, navOnline, isOnline, now, queue, drains, sub, syncStatus, acked,
                   caches, fe, cd, dash, replay>>

\* The network request of a handler of the replaced version ends, at any
\* time: after an ok response caches.open(name) creates the cache when it
\* is not there.
PrevFetchSettle(name, o, openOk) ==
    /\ name \in BagToSet(prev.flight)
    /\ prev' = [prev EXCEPT !.flight = @ (-) SetToBag({name}),
                            !.names = IF o = "ok" /\ openOk THEN @ \cup {name} ELSE @]
    /\ posted' = <<>>
    /\ UNCHANGED <<mgr, db, navOnline, isOnline, now, queue, drains, sub, syncStatus, acked,
                   caches, fe, cd, dash, replay>>

\* A handler that always goes to the network.
fetchesNetworkAlways(strategy, hit) == TRUE

\* The handler calls fetch(request): cache-first returns its cached
\* response before it gets there.
fetchesNetwork(strategy, hit) == strategy # "handleCacheFirst" \/ ~hit

\* A fetch event: the listener runs, and the handler it chose runs up to
\* the response of the network.  A cache-first hit ends the handler at
\* once; a stale-while-revalidate hit gives the caller its response while
\* the refresh is in flight.
FetchEvent(request) ==
    /\ fe.st \in {"idle", "done"}
    /\ IF ~intercepts(request)
       THEN fe' = [st |-> "done", request |-> request, intercepted |-> FALSE,
                   strategy |-> "none", hit |-> FALSE, outcome |-> "none",
                   sent |-> "none", wrote |-> FALSE, resp |-> NoResponse, net |-> 0]
       ELSE LET strategy == selectStrategy(request.pathname)
                m == cachesMatch(caches, requestUrl(request))
                served == strategy # "handleNetworkFirst" /\ m.hit
            IN  fe' = [st |-> IF fetchesNetwork(strategy, m.hit)
                              THEN "waiting" ELSE "done",
                       request |-> request, intercepted |-> TRUE,
                       strategy |-> strategy, hit |-> m.hit, outcome |-> "none",
                       sent |-> "none", wrote |-> FALSE,
                       resp |-> IF served THEN cachedResponse(m) ELSE NoResponse,
                       net |-> IF fetchesNetwork(strategy, m.hit) THEN 1 ELSE 0]
    /\ posted' = <<>>
    /\ UNCHANGED <<mgr, db, navOnline, isOnline, now, queue, drains, sub, syncStatus, acked,
                   caches, prev, cd, dash, replay>>

\* The entries the handlers have added: those that are not the install
\* handler's.
entries(c) ==
    Cardinality({u \in DOMAIN c[STATIC_CACHE] : ~isStaticAsset(u)})
    + Cardinality(DOMAIN c[DYNAMIC_CACHE]) + Cardinality(DOMAIN c[API_CACHE])

\* The network request of the fetch event being handled ends, and the
\* handler runs to its end.
FetchSettle(o, body, openOk, putOk) ==
    /\ fe.st = "waiting"
    /\ LET h == respondWith(fe.strategy, fe.request, caches, o, body, openOk, putOk)
       IN  /\ entries(h.caches) <= MaxEntries
           /\ fe' = [fe EXCEPT !.st = "done", !.outcome = o,
                               !.sent = IF o = "reject" THEN "none" ELSE body,
                               !.wrote = h.wrote, !.resp = h.resp]
           /\ caches' = h.caches
    /\ posted' = <<>>
    /\ UNCHANGED <<mgr, db, navOnline, isOnline, now, queue, drains, sub, syncStatus, acked,
                   prev, cd, dash, replay>>

\* ------------------------------------------------------ cachedData store
\* Keys the dashboard caches under, values, and times to live in
\* milliseconds of the model's clock.
CacheKeys == {"dashboard_summary", "recent_bills"}
CacheValues == {"a", "b"}
Ttls == {0, 1, 2}

\* A put that keeps the record a key already has.
putCachedDataKeepsFirst(store, key, data, ttl, t) ==
    [k \in DOMAIN store \cup {key} |->
        IF k = key /\ k \notin DOMAIN store
        THEN [key |-> key, data |-> data, timestamp |-> t, expiry |-> t + ttl]
        ELSE store[k]]

\* store.put(cacheData): the record of the key is replaced.
putCachedData(store, key, data, ttl, t) ==
    [k \in DOMAIN store \cup {key} |->
        IF k = key
        THEN [key |-> key, data |-> data, timestamp |-> t, expiry |-> t + ttl]
        ELSE store[k]]

\* A read that still returns a record at the millisecond of its expiry.
readCachedDataInclusive(store, key, t) ==
    IF key \in DOMAIN store /\ store[key].expiry >= t THEN store[key].data ELSE "null"

\* result && result.expiry > Date.now() ? result.data : null
readCachedData(store, key, t) ==
    IF key \in DOMAIN store /\ store[key].expiry > t THEN store[key].data ELSE "null"

\* The clock of the cachedData store advances.
CacheTick ==
    /\ now < MaxTime
    /\ now' = now + 1
    /\ posted' = <<>>
    /\ UNCHANGED <<mgr, db, navOnline, isOnline, queue, drains, sub, syncStatus, acked,
                   caches, fe, prev, cd, dash, replay>>

\* setCachedData(key, data, ttl), called on window.offlineManager.
SetCachedData(key, data, ttl, putOk) ==
    /\ mgr # "absent"
    /\ LET stored == db /\ putOk
       IN  cd' = [store |-> IF stored THEN putCachedData(cd.store, key, data, ttl, now)
                            ELSE cd.store,
                  call |-> [op |-> "set", key |-> key, failed |-> db /\ ~putOk,
                            ret |-> IF stored THEN "true" ELSE "false"],
                  last |-> IF stored
                           THEN [k \in DOMAIN cd.last \cup {key} |->
                                    IF k = key THEN [data |-> data, at |-> now, ttl |-> ttl]
                                    ELSE cd.last[k]]
                           ELSE cd.last]
    /\ posted' = <<>>
    /\ UNCHANGED <<mgr, db, navOnline, isOnline, now, queue, drains, sub, syncStatus, acked,
                   caches, fe, prev, dash, replay>>

\* A getCachedData that deletes the record it finds expired.
GetCachedDataEvicts(key, getOk) ==
    /\ mgr # "absent"
    /\ cd' = [cd EXCEPT
                 !.call = [op |-> "get", key |-> key, failed |-> db /\ ~getOk,
                           ret |-> IF db /\ getOk THEN readCachedData(cd.store, key, now)
                                   ELSE "null"],
                 !.store = IF db /\ getOk /\ key \in DOMAIN cd.store
                              /\ cd.store[key].expiry <= now
                           THEN [k \in DOMAIN cd.store \ {key} |-> cd.store[k]]
                           ELSE cd.store]
    /\ posted' = <<>>
    /\ UNCHANGED <<mgr, db, navOnline, isOnline, now, queue, drains, sub, syncStatus, acked,
                   caches, fe, prev, dash, replay>>

\* getCachedData(key), called on window.offlineManager.
GetCachedData(key, getOk) ==
    /\ mgr # "absent"
    /\ cd' = [cd EXCEPT !.call =
                 [op |-> "get", key |-> key, failed |-> db /\ ~getOk,
                  ret |-> IF db /\ getOk THEN readCachedData(cd.store, key, now)
                          ELSE "null"]]
    /\ posted' = <<>>
    /\ UNCHANGED <<mgr, db, navOnline, isOnline, now, queue, drains, sub, syncStatus, acked,
                   caches, fe, prev, dash, replay>>

\* -------------------------------------------------------------- dashboard
DefaultTtl == 3600000

\* The document of a dashboard page has loaded: new OfflineDashboard(),
\* whose constructor reads navigator.onLine and whose init() registers the
\* listeners before its first await.
DashboardLoaded ==
    /\ ~dash.present
    /\ dash' = [present |-> TRUE, isOnline |-> navOnline, refreshing |-> 0]
    /\ posted' = <<>>
    /\ UNCHANGED <<mgr, db, navOnline, isOnline, now, queue, drains, sub, syncStatus, acked,
                   caches, fe, prev, cd, replay>>

\* A click on #refreshDashboard: refreshData() returns at once when the
\* dashboard is offline and sends its request otherwise.
DashRefresh ==
    /\ dash.present
    /\ dash.isOnline => dash.refreshing < MaxRefresh
    /\ dash' = IF dash.isOnline THEN [dash EXCEPT !.refreshing = @ + 1] ELSE dash
    /\ posted' = <<>>
    /\ UNCHANGED <<mgr, db, navOnline, isOnline, now, queue, drains, sub, syncStatus, acked,
                   caches, fe, prev, cd, replay>>

\* A refresh that takes a failed request for the loss of the network.
afterRefreshInfersOffline(d, o) ==
    [d EXCEPT !.refreshing = @ - 1, !.isOnline = IF o = "reject" THEN FALSE ELSE @]

\* The dashboard after the try / catch / finally of refreshData.
afterRefresh(d, o) == [d EXCEPT !.refreshing = @ - 1]

\* The request of a refreshData settles: an ok response whose body parses
\* is cached with setCachedData under the default ttl when there is a
\* window.offlineManager; everything else ends in the catch.
DashRefreshSettle(o, data, putOk) ==
    /\ dash.present
    /\ dash.refreshing > 0
    /\ dash' = afterRefresh(dash, o)
    /\ IF o = "ok" /\ mgr # "absent"
       THEN LET stored == db /\ putOk
            IN  cd' = [store |-> IF stored
                                 THEN putCachedData(cd.store, "dashboard_summary", data,
                                                    DefaultTtl, now)
                                 ELSE cd.store,
                       call |-> [op |-> "set", key |-> "dashboard_summary",
                                 failed |-> db /\ ~putOk,
                                 ret |-> IF stored THEN "true" ELSE "false"],
                       last |-> IF stored
                                THEN [k \in DOMAIN cd.last \cup {"dashboard_summary"} |->
                                         IF k = "dashboard_summary"
                                         THEN [data |-> data, at |-> now, ttl |-> DefaultTtl]
                                         ELSE cd.last[k]]
                                ELSE cd.last]
       ELSE UNCHANGED cd
    /\ posted' = <<>>
    /\ UNCHANGED <<mgr, db, navOnline, isOnline, now, queue, drains, sub, syncStatus, acked,
                   caches, fe, prev, replay>>

\* syncOfflineData calls syncSingleAction on an action of its list, which
\* runs up to its fetch.
SyncSingleAction(action, csrf) ==
    /\ mgr = "ready"
    /\ replay' = [called |-> TRUE, csrf |-> csrf, action |-> action,
                  request |-> syncSingleAction(action, csrf)]
    /\ posted' = <<>>
    /\ UNCHANGED <<mgr, db, navOnline, isOnline, now, queue, drains, sub, syncStatus, acked,
                   caches, fe, prev, cd, dash>>

\* ------------------------------------------------------------------- Next
Next ==
    \/ Tick
    \/ InitDone
    \/ InitFail
    \/ OfflineEvent
    \/ OnlineEvent
    \/ \E d \in Running, o \in ReplayOutcomes :
          \E putOk \in (IF o = "ok" THEN BOOLEAN ELSE {TRUE}) : DrainSettle(d, o, putOk)
    \/ \E addOk \in BOOLEAN, r \in 0..(RandRes - 1) : SaveForLater(addOk, r)
    \/ \E form \in Forms, addOk \in BOOLEAN, lsOk \in BOOLEAN, r \in 0..(RandRes - 1) :
          SubmitEvent(form, addOk, lsOk, r)
    \/ \E o \in Outcomes, addOk \in BOOLEAN, lsOk \in BOOLEAN, r \in 0..(RandRes - 1) :
          SubmitSettle(o, addOk, lsOk, r)
    \/ \E tag \in Tags : SyncEvent(tag)
    \/ \E addAllOk \in BOOLEAN : InstallEvent(addAllOk)
    \/ ActivateEvent
    \/ ActivateDeleted
    \/ ActivateClaimed
    \/ \E request \in Requests : FetchEvent(request)
    \/ \E o \in FetchOutcomes, body \in Bodies, openOk \in BOOLEAN, putOk \in BOOLEAN :
          FetchSettle(o, body, openOk, putOk)
    \/ \E w \in Clients : ClientOpens(w)
    \/ \E name \in PreviousCaches : PrevFetchEvent(name)
    \/ \E name \in PreviousCaches, o \in FetchOutcomes, openOk \in BOOLEAN :
          PrevFetchSettle(name, o, openOk)
    \/ CacheTick
    \/ \E key \in CacheKeys, data \in CacheValues, ttl \in Ttls, putOk \in BOOLEAN :
          SetCachedData(key, data, ttl, putOk)
    \/ \E key \in CacheKeys, getOk \in BOOLEAN : GetCachedData(key, getOk)
    \/ DashboardLoaded
    \/ DashRefresh
    \/ \E o \in Outcomes, data \in CacheValues, putOk \in BOOLEAN :
          DashRefreshSettle(o, data, putOk)
    \/ \E action \in ReplayActions, csrf \in CsrfTokens : SyncSingleAction(action, csrf)

Spec == Init /\ [][Next]_vars

TypeOK ==
    /\ mgr \in {"absent", "initializing", "ready", "failed"}
    /\ db \in BOOLEAN /\ navOnline \in BOOLEAN /\ isOnline \in BOOLEAN
    /\ now \in 0..(MaxQueue + MaxTime)
    /\ Len(queue) <= MaxQueue
    /\ BagCardinality(drains) <= MaxDrains
    /\ \A d \in Running : d # <<>>
    /\ sub.st \in {"idle", "fetching", "done"}
    /\ syncStatus \in -1..MaxQueue
    /\ posted \in {<<>>, <<"SYNC_COMPLETED">>, <<"SW_UPDATED">>}
    /\ fe.st \in {"installing", "installed", "activating", "idle", "waiting", "done"}
    /\ prev.notified \subseteq prev.controlled /\ prev.controlled \subseteq prev.clients
    /\ prev.clients \subseteq Clients
    /\ prev.names \subseteq PreviousCaches
    /\ BagCardinality(prev.flight) <= MaxPrev
    /\ dash.refreshing \in 0..MaxRefresh
    /\ DOMAIN cd.store \subseteq CacheKeys
    /\ cd.call.ret \in {"none", "true", "false", "null"} \cup CacheValues
    /\ DOMAIN caches = {STATIC_CACHE, DYNAMIC_CACHE, API_CACHE}
    /\ replay.called => (replay.action \in ReplayActions /\ replay.csrf \in CsrfTokens)

\* The queue and its drains alone: no form is submitted.
NextQueue ==
    \/ Tick
    \/ InitDone
    \/ InitFail
    \/ OfflineEvent
    \/ OnlineEvent
    \/ \E d \in Running, o \in ReplayOutcomes :
          \E putOk \in (IF o = "ok" THEN BOOLEAN ELSE {TRUE}) : DrainSettle(d, o, putOk)
    \/ \E addOk \in BOOLEAN, r \in 0..(RandRes - 1) : SaveForLater(addOk, r)
    \/ \E tag \in Tags : SyncEvent(tag)

SpecQueue == Init /\ [][NextQueue]_vars

\* Form writes alone: replay requests stay in flight.
NextForms ==
    \/ Tick
    \/ InitDone
    \/ InitFail
    \/ OfflineEvent
    \/ OnlineEvent
    \/ \E form \in Forms, addOk \in BOOLEAN, lsOk \in BOOLEAN, r \in 0..(RandRes - 1) :
          SubmitEvent(form, addOk, lsOk, r)
    \/ \E o \in Outcomes, addOk \in BOOLEAN, lsOk \in BOOLEAN, r \in 0..(RandRes - 1) :
          SubmitSettle(o, addOk, lsOk, r)

SpecForms == Init /\ [][NextForms]_vars

\* The fetch handling of the service worker alone.
NextFetch ==
    \/ \E addAllOk \in BOOLEAN : InstallEvent(addAllOk)
    \/ ActivateEvent
    \/ ActivateDeleted
    \/ ActivateClaimed
    \/ \E request \in Requests : FetchEvent(request)
    \/ \E o \in FetchOutcomes, body \in Bodies, openOk \in BOOLEAN, putOk \in BOOLEAN :
          FetchSettle(o, body, openOk, putOk)

SpecFetch == Init /\ [][NextFetch]_vars

\* The replacement of a version of the service worker by the next.
NextActivate ==
    \/ \E addAllOk \in BOOLEAN : InstallEvent(addAllOk)
    \/ ActivateEvent
    \/ ActivateDeleted
    \/ ActivateClaimed
    \/ \E w \in Clients : ClientOpens(w)
    \/ \E name \in PreviousCaches : PrevFetchEvent(name)
    \/ \E name \in PreviousCaches, o \in FetchOutcomes, openOk \in BOOLEAN :
          PrevFetchSettle(name, o, openOk)

SpecActivate == Init /\ [][NextActivate]_vars

\* The cachedData store and its callers.
NextCache ==
    \/ InitDone
    \/ InitFail
    \/ CacheTick
    \/ \E key \in CacheKeys, data \in CacheValues, ttl \in Ttls, putOk \in BOOLEAN :
          SetCachedData(key, data, ttl, putOk)
    \/ \E key \in CacheKeys, getOk \in BOOLEAN : GetCachedData(key, getOk)

SpecCache == Init /\ [][NextCache]_vars

\* Connectivity: the platform events and the network requests of the page.
\* Every record is stored in the same millisecond with the same random
\* part, so the store holds one action at most.
NextOnline ==
    \/ InitDone
    \/ InitFail
    \/ OfflineEvent
    \/ OnlineEvent
    \/ \E d \in Running, o \in ReplayOutcomes :
          \E putOk \in (IF o = "ok" THEN BOOLEAN ELSE {TRUE}) : DrainSettle(d, o, putOk)
    \/ \E addOk \in BOOLEAN, lsOk \in BOOLEAN : SubmitForm(addOk, lsOk, 0)
    \/ \E o \in Outcomes, addOk \in BOOLEAN, lsOk \in BOOLEAN :
          SubmitSettle(o, addOk, lsOk, 0)
    \/ DashboardLoaded
    \/ DashRefresh
    \/ \E o \in Outcomes, data \in CacheValues, putOk \in BOOLEAN :
          DashRefreshSettle(o, data, putOk)

SpecOnline == Init /\ [][NextOnline]_vars

\* syncSingleAction on actions of every shape.
NextReplay ==
    \/ InitDone
    \/ InitFail
    \/ \E action \in ReplayActions, csrf \in CsrfTokens : SyncSingleAction(action, csrf)

SpecReplay == Init /\ [][NextReplay]_vars

\* ======================================================== the properties
\* Position of the record with key id in the store, which is the order of
\* creation: storeOfflineAction appends and nothing removes.
CreatedAt(id) == CHOOSE i \in DOMAIN queue : queue[i].id = id

\* The replay requests that are in flight.
InFlight == {Current(d).id : d \in Running}

\* C1: once a replay of a queued action has received a 2xx response, no later
\* drain sends that action to the network again.  A request is sent when an
\* activation starts (its first item) and when an activation goes on to its
\* next item.
C1_ReplayedAtMostOnce ==
    [][ /\ OnlineEvent
            => \A d \in BagToSet(drains') :
                  CopiesIn(d, drains') > CopiesIn(d, drains)
                  => Current(d).id \notin acked
        /\ \A d \in Running, o \in ReplayOutcomes, putOk \in BOOLEAN :
            (DrainSettle(d, o, putOk) /\ Len(d) > 1)
            => d[2].id \notin acked ]_vars

\* C2: within one drain pass the unsynced actions are replayed in creation
\* order: an action created before another one of the same pass is never
\* behind it in what the pass has still to send.
C2_FifoWithinPass ==
    \A d \in Running : \A i, j \in DOMAIN d :
        i < j => CreatedAt(d[i].id) < CreatedAt(d[j].id)

\* C3: at most one drain is in progress at any time, so no queued action has
\* two replay requests in flight at once.
C3_SingleDrain ==
    /\ BagCardinality(drains) <= 1
    /\ \A d, e \in Running : d # e => Current(d).id # Current(e).id

\* C4: per-item isolation.  When the replay of an action fails (the request
\* is rejected, or the response is not a 2xx one), the failure changes no
\* record of the store, so an action that was synced=false stays so, and the
\* pass goes on to send the next action of its list.
C4_PerItemIsolation ==
    [][ \A d \in Running, o \in {"notOk", "reject"} :
          DrainSettle(d, o, TRUE)
          => /\ queue' = queue
             /\ \A i \in DOMAIN queue :
                   (queue[i].id = Current(d).id /\ ~queue[i].synced)
                   => ~queue'[i].synced
             /\ Len(d) > 1
                => /\ BagCardinality(drains') = BagCardinality(drains)
                   /\ CopiesIn(Tail(d), drains') > CopiesIn(Tail(d), drains)
                   /\ d[2].id \in InFlight' ]_vars

\* A pass has gone past an action it could not replay: the action b in
\* flight was created after an action a of the same pass with a smaller key,
\* and a is still unsynced and was never answered with a 2xx.
C4_Witness ==
    /\ BagCardinality(drains) = 1
    /\ \E d \in Running : \E i, j \in DOMAIN queue :
         /\ i < j
         /\ queue[j].id = Current(d).id
         /\ queue[i].id < queue[j].id
         /\ ~queue[i].synced
         /\ queue[i].id \notin acked
         /\ \A n \in DOMAIN d : d[n].id # queue[i].id

\* ------------------------------------------------------------- liveness
\* The server answers every replay with a 2xx response and the store does
\* not fail; a replay request in flight eventually settles (the platform
\* ends every fetch with a response or an error).
ReplySettles == \E d \in Running, o \in {"ok", "okBadBody"} : DrainSettle(d, o, TRUE)

NextLive ==
    \/ Tick
    \/ InitDone
    \/ OfflineEvent
    \/ OnlineEvent
    \/ ReplySettles
    \/ \E r \in 0..(RandRes - 1) : SaveForLater(TRUE, r)

SpecLive == Init /\ [][NextLive]_vars /\ WF_vars(ReplySettles)

\* An online event on which syncOfflineData read the unsynced actions and
\* went on to replay them.
DrainTrigger == OnlineEvent /\ mgr = "ready" /\ (drains' # drains \/ Unsynced(queue) = {})

AllIds == 0..((MaxQueue + 1) * RandRes - 1)
IsSynced(id) == \E i \in DOMAIN queue : queue[i].id = id /\ queue[i].synced

\* C5: if drain triggers keep occurring while online and the server answers
\* 2xx to the replays, every queued action eventually becomes synced=true.
C5_EventuallySynced ==
    ([]<><<DrainTrigger>>_vars)
    => \A id \in AllIds : [](id \in Ids(queue) => <>IsSynced(id))

\* ------------------------------------------------------------- drains
\* C11: drain idempotence.  A drain pass that starts when every queued
\* action is synced=true sends no request: the online listener's pass adds
\* no activation (an activation is a request in flight) and the store and
\* the acknowledgements stay as they were, and the same holds of a pass of
\* the service worker.
C11_DrainIdempotent ==
    [][ (Unsynced(queue) = {} /\ (OnlineEvent \/ \E tag \in Tags : SyncEvent(tag)))
        => /\ drains' = drains
           /\ queue' = queue
           /\ acked' = acked ]_vars

\* Every queued action is synced, no pass is running, and the manager is
\* online with its status showing nothing pending: a further online event
\* or sync event finds nothing to send.
C11_Witness ==
    /\ mgr = "ready" /\ navOnline /\ isOnline
    /\ Len(queue) = MaxQueue
    /\ \A i \in DOMAIN queue : queue[i].synced
    /\ drains = EmptyBag
    /\ syncStatus = 0

\* The keys in a list of records.
ListIds(l) == {l[i].id : i \in DOMAIN l}

\* C12: each drain pass sends exactly one replay request for every action
\* that is synced=false when the pass starts.  A pass of the manager starts
\* with a list that holds each unsynced action once and goes through it one
\* item at a time; a pass of the service worker, which a sync event may
\* start whenever the platform is online, sends one request for every
\* unsynced action of the store.
C12_OneRequestPerUnsynced ==
    /\ [][ /\ OnlineEvent
               => \A d \in BagToSet(drains') :
                     CopiesIn(d, drains') > CopiesIn(d, drains)
                     => /\ ListIds(d) = {a.id : a \in Unsynced(queue)}
                        /\ Len(d) = countUnsynced(queue)
           /\ \A d \in Running, o \in ReplayOutcomes, putOk \in BOOLEAN :
                 (DrainSettle(d, o, putOk) /\ Len(d) > 1)
                 => drains' = (drains (-) SetToBag({d})) (+) SetToBag({Tail(d)}) ]_vars
    /\ [](navOnline
          => LET sent == swRequests(getOfflineDataFromIDB)
             IN  /\ {sent[i] : i \in DOMAIN sent} = {a.id : a \in Unsynced(queue)}
                 /\ Len(sent) = countUnsynced(queue))

\* A pass of the manager ends: the replay of the last item of an activation
\* settles.
ManagerPassEnds ==
    \E d \in Running, o \in ReplayOutcomes, putOk \in BOOLEAN :
        DrainSettle(d, o, putOk) /\ Len(d) = 1

\* A pass of the service worker runs from its start to its end.
WorkerPassEnds == SyncEvent(SyncTag)

\* C13: every drain pass ends with exactly one SYNC_COMPLETED notification
\* to the consumers, whatever happened to the items, and a SYNC_COMPLETED is
\* posted only by a step in which a pass ends.
C13_SyncCompletedOncePerPass ==
    [][ /\ (ManagerPassEnds \/ WorkerPassEnds) => posted' = <<"SYNC_COMPLETED">>
        /\ posted' = <<"SYNC_COMPLETED">> => (ManagerPassEnds \/ WorkerPassEnds) ]_vars

\* The 'online' listener runs and the syncOfflineData it calls gets past its
\* guard (isOnline and db) to read the queue.
ManagerDrainStarts == mgr = "ready" /\ isOnline' /\ db

\* What a sync event does for its tag: the service worker's syncOfflineData
\* runs, which is seen by the SYNC_COMPLETED it posts, for the tag
\* 'sync-offline-data' and for no other.
WorkerDrainByTag ==
    \A tag \in Tags :
        SyncEvent(tag) => (posted' = <<"SYNC_COMPLETED">> <=> tag = "sync-offline-data")

C15_WorkerDrainsSameQueue ==
    navOnline => ListIds(getOfflineDataFromIDB) = ListIds(getAllUnsynced(queue))

C16_EnqueueUpdatesStatus ==
    /\ [](\A addOk \in BOOLEAN, r \in 0..(RandRes - 1) :
            LET s == storeOfflineAction(queue, db, addOk, now, r)
            IN  s.ret = "true" => s.notified)
    /\ [][ Len(queue') > Len(queue)
           => syncStatus' = Cardinality({i \in DOMAIN queue' : ~queue'[i].synced}) ]_vars

\* An action was enqueued beside one already replayed, and the status shows
\* the one that is pending.
C16_Witness ==
    /\ Len(queue) = 2
    /\ queue[1].synced /\ ~queue[2].synced
    /\ queue[2].timestamp = now
    /\ queue[2].id \notin acked
    /\ drains = EmptyBag
    /\ syncStatus = 1

\* The add of storeOfflineAction fails: for a reason of the store's own, or
\* because the key is already in the store.
AddFails(addOk, r) == ~addOk \/ (now * RandRes + r) \in Ids(queue)

\* What C7 requires of one call of storeOfflineAction, res being its result
\* and q2 the store after it.
EnqueueContract(addOk, r, res, q2) ==
    IF db /\ ~AddFails(addOk, r)
    THEN /\ res = "true"
         /\ Len(q2) = Len(queue) + 1
         /\ SubSeq(q2, 1, Len(queue)) = queue
         /\ q2[Len(q2)].synced = FALSE
         /\ q2[Len(q2)].timestamp = now
    ELSE /\ res = "false"
         /\ q2 = queue

\* C7: storeOfflineAction adds exactly one record, with synced=false, and
\* returns true when the store is available; when the database was not
\* opened or the add fails it returns false and leaves the store unchanged.
\* Stated of the call made in any reachable state with any outcome of the
\* add, and of the calls a form submission makes, whose result the
\* submission records.
C7_EnqueueContract ==
    /\ [](\A addOk \in BOOLEAN, r \in 0..(RandRes - 1) :
            LET s == storeOfflineAction(queue, db, addOk, now, r)
            IN  EnqueueContract(addOk, r, s.ret, s.queue))
    /\ [][ \A addOk \in BOOLEAN, lsOk \in BOOLEAN, r \in 0..(RandRes - 1) :
            /\ (SubmitForm(addOk, lsOk, r) /\ takesOfflinePath(mgr, isOnline))
               => EnqueueContract(addOk, r, sub'.stored, queue')
            /\ \A o \in {"okBadBody", "notOkBadBody", "reject"} :
               (SubmitSettle(o, addOk, lsOk, r) /\ ~navOnline /\ mgr # "absent")
               => EnqueueContract(addOk, r, sub'.stored, queue') ]_vars

\* A submission's enqueue has added a record to a store that already held
\* one.
C7_Witness ==
    /\ Len(queue) = 2
    /\ ~queue[2].synced
    /\ db
    /\ sub.st = "done" /\ sub.stored = "true" /\ sub.enq = 1

\* C8 as stated: an offline-capable form submitted while the manager reports
\* offline creates exactly one QueuedAction and causes no network request.
C8_ExactlyOneQueued ==
    (sub.st = "done" /\ sub.path = "offline") => (sub.enq = 1 /\ sub.net = 0)

\* C8 as amended: such a submission causes no network request and creates
\* one QueuedAction, with synced=false, exactly when storeOfflineAction
\* returned true; when it returned false the store is unchanged.
C8_OneQueuedWhenStored ==
    [][ \A addOk \in BOOLEAN, lsOk \in BOOLEAN, r \in 0..(RandRes - 1) :
          (SubmitForm(addOk, lsOk, r) /\ mgr # "absent" /\ ~isOnline)
          => /\ sub'.net = 0
             /\ sub'.stored \in {"true", "false"}
             /\ IF sub'.stored = "true"
                THEN /\ Len(queue') = Len(queue) + 1
                     /\ SubSeq(queue', 1, Len(queue)) = queue
                     /\ ~queue'[Len(queue')].synced
                     /\ sub'.enq = 1
                ELSE /\ queue' = queue
                     /\ sub'.enq = 0 ]_vars

\* A form was submitted offline and its action is in the queue.
C8_Witness ==
    /\ sub.st = "done" /\ sub.path = "offline"
    /\ sub.stored = "true" /\ sub.enq = 1 /\ sub.net = 0
    /\ \E i \in DOMAIN queue : ~queue[i].synced

\* C9: a form write whose fetch rejects in handleOnlineSubmission is
\* enqueued for later retry and is not reported to the caller as a failure
\* (stated for a manager whose store is open).
C9_NetworkErrorEnqueued ==
    (sub.st = "done" /\ sub.reply = "reject" /\ mgr = "ready")
    => (sub.enq = 1 /\ sub.ret = "true")

\* C10: whenever the enqueue fails during handleOfflineSubmission
\* (storeOfflineAction returns false or throws), the user is shown 'Failed to
\* save data offline.', no success message is shown, and the submission
\* returns false.
C10_EnqueueFailureReported ==
    (sub.st = "done" /\ sub.stored \in {"false", "threw"})
    => /\ "error: Failed to save data offline." \in sub.shown
       /\ "success: Data saved offline." \notin sub.shown
       /\ "success: Data saved successfully!" \notin sub.shown
       /\ "info: Action saved offline." \notin sub.shown
       /\ sub.ret = "false"
       /\ sub.enq = 0

\* A submission ended with storeOfflineAction returning false.
C10_Witness ==
    /\ sub.st = "done"
    /\ sub.stored = "false"
    /\ sub.ret = "false"

\* ---------------------------------------------------- service worker fetch
\* C17: for every intercepted GET request the fetch listener selects one
\* strategy, by first match in this order: a NETWORK_FIRST_ROUTES prefix
\* gives network-first; else a CACHEABLE_API_ROUTES prefix gives
\* stale-while-revalidate; else a CACHE_FIRST_ROUTES prefix gives
\* cache-first; else a pathname equal to a STATIC_ASSETS entry gives
\* cache-first; otherwise stale-while-revalidate.
C17_FirstMatchStrategy ==
    fe.intercepted =>
        LET p == fe.request.pathname
            prefixIn(routes) ==
                \E i \in DOMAIN routes :
                    /\ Len(p) >= Len(routes[i])
                    /\ SubSeq(p, 1, Len(routes[i])) = routes[i]
        IN  /\ fe.request.method = "GET"
            /\ fe.strategy =
                  IF prefixIn(NETWORK_FIRST_ROUTES) THEN "handleNetworkFirst"
                  ELSE IF prefixIn(CACHEABLE_API_ROUTES) THEN "handleStaleWhileRevalidate"
                  ELSE IF prefixIn(CACHE_FIRST_ROUTES) THEN "handleCacheFirst"
                  ELSE IF p \in {STATIC_ASSETS[i] : i \in DOMAIN STATIC_ASSETS}
                       THEN "handleCacheFirst"
                  ELSE "handleStaleWhileRevalidate"

\* A pathname that only starts with a static asset has been given the
\* default strategy, and a static asset cache-first.
C17_Witness ==
    /\ fe.intercepted
    /\ fe.request.pathname = "/static/js/scripts.js.map"
    /\ fe.strategy = "handleStaleWhileRevalidate"
    /\ fe.st = "done"

\* C18: requests whose method is not GET, and requests whose scheme is not
\* http or https, are never intercepted: for none of them does the fetch
\* listener call respondWith or issue its own network request.
C18_OnlyHttpGetIntercepted ==
    (fe.request.method # "GET" \/ fe.request.protocol \notin {"http:", "https:"})
    => (~fe.intercepted /\ fe.net = 0)

\* C19: for every GET request on a network-first route, if the network
\* call succeeds, the response returned to the caller is that live network
\* response, never a cached or synthesized one.
C19_NetworkFirstReturnsLive ==
    (fe.st = "done" /\ fe.strategy = "handleNetworkFirst" /\ fe.outcome = "ok")
    => fe.resp.from = "network"

\* C20: for every intercepted GET request under each of the three
\* strategies, when the network is unreachable and no cache entry exists,
\* the handler resolves with a synthesized offline response.
C20_OfflineResponseWhenNothingCached ==
    (fe.st = "done" /\ fe.intercepted /\ fe.outcome = "reject" /\ ~fe.hit)
    => fe.resp.from = "offline"

\* C21: createOfflineResponse maps the Accept header of the request to the
\* fallback: with text/html in it, the cached /general/home page if there
\* is one, else the static offline page with status 200; else with
\* application/json in it, a status 200 JSON body with offline: true;
\* otherwise a status 503 plain-text response.
C21_OfflineResponseByAccept ==
    (fe.st = "done" /\ fe.resp.from = "offline") =>
        LET a == fe.request.accept
            holders == {n \in {STATIC_CACHE, DYNAMIC_CACHE, API_CACHE} :
                           "/general/home" \in DOMAIN caches[n]}
        IN  IF includes(a, "text/html")
            THEN IF holders # {}
                 THEN /\ fe.resp.kind = "home"
                      /\ \E n \in holders : fe.resp.body = caches[n]["/general/home"]
                 ELSE fe.resp.kind = "html" /\ fe.resp.status = 200
            ELSE IF includes(a, "application/json")
                 THEN fe.resp.kind = "json" /\ fe.resp.status = 200
                 ELSE fe.resp.kind = "plain" /\ fe.resp.status = 503

\* A request that accepts HTML has been answered with the cached home page.
C21_Witness ==
    /\ fe.st = "done"
    /\ fe.resp.from = "offline"
    /\ fe.resp.kind = "home"
    /\ fe.request.pathname # "/general/home"

\* C22: under stale-while-revalidate with a cached entry present, the
\* cached response is returned to the caller without waiting for the
\* network request to settle, while exactly one refresh request is issued
\* whose ok result overwrites the cache entry used by later requests.
C22_StaleServedRefreshOverwrites ==
    (fe.strategy = "handleStaleWhileRevalidate" /\ fe.hit) =>
        /\ fe.resp.from = "cache"
        /\ fe.net = 1
        /\ fe.st = "waiting" =>
              fe.resp.body = cachesMatch(caches, requestUrl(fe.request)).body
        /\ (fe.st = "done" /\ fe.outcome = "ok") =>
              cachesMatch(caches, requestUrl(fe.request)) = [hit |-> TRUE, body |-> fe.sent]

\* C22, amended: the same, the ok result overwriting the entry when the
\* open of the cache and the put went through.
C22_StaleServedRefreshOverwritesWhenWritten ==
    (fe.strategy = "handleStaleWhileRevalidate" /\ fe.hit) =>
        /\ fe.resp.from = "cache"
        /\ fe.net = 1
        /\ fe.st = "waiting" =>
              fe.resp.body = cachesMatch(caches, requestUrl(fe.request)).body
        /\ (fe.st = "done" /\ fe.outcome = "ok" /\ fe.wrote) =>
              cachesMatch(caches, requestUrl(fe.request)) = [hit |-> TRUE, body |-> fe.sent]
        /\ (fe.st = "done" /\ ~fe.wrote) =>
              cachesMatch(caches, requestUrl(fe.request)) = [hit |-> TRUE, body |-> fe.resp.body]

\* The caller got the stale body and the refresh stored the newer one.
C22_Witness ==
    /\ fe.st = "done"
    /\ fe.strategy = "handleStaleWhileRevalidate"
    /\ fe.hit /\ fe.outcome = "ok" /\ fe.wrote
    /\ fe.resp = [from |-> "cache", kind |-> "stored", status |-> 200, body |-> Live]
    /\ fe.sent = "newer"
    /\ cachesMatch(caches, requestUrl(fe.request)).body = "newer"

\* C23: under cache-first, when a cached response exists it is returned
\* and no network request is issued for that request; the network is
\* contacted only on a cache miss.
C23_CacheFirstHitNoNetwork ==
    (fe.intercepted /\ fe.strategy = "handleCacheFirst") =>
        /\ fe.hit =>
              /\ fe.st = "done"
              /\ fe.net = 0 /\ fe.outcome = "none" /\ ~fe.wrote
              /\ fe.resp.from = "cache"
              /\ fe.resp.body = cachesMatch(caches, requestUrl(fe.request)).body
        /\ fe.net = 1 => ~fe.hit

\* A static asset the install handler stored has been served from the
\* cache.
C23_Witness ==
    /\ fe.st = "done"
    /\ fe.strategy = "handleCacheFirst"
    /\ fe.hit
    /\ fe.request.pathname = "/static/js/scripts.js"
    /\ fe.resp = [from |-> "cache", kind |-> "stored", status |-> 200, body |-> Installed]

\* C24: under network-first, when the network request fails and a cache
\* holds a response for the request, that cached response is returned; the
\* synthesized offline response is used only when no cached response
\* exists.
C24_NetworkFirstFallsBackToCache ==
    (fe.st = "done" /\ fe.strategy = "handleNetworkFirst" /\ fe.outcome = "reject") =>
        LET m == cachesMatch(caches, requestUrl(fe.request))
        IN  /\ m.hit = fe.hit
            /\ fe.hit =>
                  fe.resp = [from |-> "cache", kind |-> "stored", status |-> 200,
                             body |-> m.body]
            /\ fe.resp.from = "offline" <=> ~fe.hit

\* The fetch of a network-first request rejected and the response stored
\* by an earlier request was returned.
C24_Witness ==
    /\ fe.st = "done"
    /\ fe.strategy = "handleNetworkFirst"
    /\ fe.outcome = "reject"
    /\ fe.hit
    /\ fe.resp.from = "cache"
    /\ fe.resp.body \in Bodies

\* C25: a failure to open or write a cache after a successful network
\* fetch does not change the result of the read: network-first and
\* cache-first still return the network response to the caller.
C25_CacheFailureKeepsNetworkResponse ==
    (/\ fe.st = "done"
     /\ fe.strategy \in {"handleNetworkFirst", "handleCacheFirst"}
     /\ fe.outcome = "ok"
     /\ ~fe.wrote)
    => fe.resp = [from |-> "network", kind |-> "live", status |-> 200, body |-> fe.sent]

C27_ReadBeforeExpiryReturnsData ==
    [][ \A key \in CacheKeys, getOk \in BOOLEAN :
          ( /\ GetCachedData(key, getOk)
            /\ key \in DOMAIN cd.last
            /\ now < cd.last[key].at + cd.last[key].ttl )
          => cd'.call.ret = cd.last[key].data ]_vars

\* C27, amended: the same for a getCachedData whose read of the store does
\* not fail; one whose read fails returns null.
C27_ReadBeforeExpiryReturnsDataUnlessReadFails ==
    [][ \A key \in CacheKeys :
          /\ ( /\ GetCachedData(key, TRUE)
               /\ key \in DOMAIN cd.last
               /\ now < cd.last[key].at + cd.last[key].ttl )
             => cd'.call.ret = cd.last[key].data
          /\ (GetCachedData(key, FALSE) /\ db) => cd'.call.ret = "null" ]_vars

\* Some time after the last setCachedData of a key, and before its ttl has
\* elapsed, getCachedData has returned its data.
C27_Witness ==
    /\ cd.call.op = "get" /\ ~cd.call.failed
    /\ cd.call.key \in DOMAIN cd.last
    /\ cd.last[cd.call.key].at < now
    /\ now < cd.last[cd.call.key].at + cd.last[cd.call.key].ttl
    /\ cd.call.ret = cd.last[cd.call.key].data
    /\ cd.call.ret \in CacheValues

\* C28: getCachedData never returns data from a record whose expiry is not
\* later than the current time: once ttl has elapsed since the last
\* setCachedData(key), getCachedData(key) returns null.
C28_ExpiredReadReturnsNull ==
    [][ \A key \in CacheKeys, getOk \in BOOLEAN :
          GetCachedData(key, getOk) =>
            /\ (key \in DOMAIN cd.store /\ cd.store[key].expiry <= now)
                  => cd'.call.ret = "null"
            /\ (key \in DOMAIN cd.last /\ now >= cd.last[key].at + cd.last[key].ttl)
                  => cd'.call.ret = "null"
            /\ key \notin DOMAIN cd.last => cd'.call.ret = "null" ]_vars

\* A read at the very millisecond of the expiry of a record has returned
\* null.
C28_Witness ==
    /\ cd.call.op = "get" /\ ~cd.call.failed
    /\ cd.call.key \in DOMAIN cd.store
    /\ cd.store[cd.call.key].timestamp < now
    /\ cd.store[cd.call.key].expiry = now
    /\ cd.call.ret = "null"

\* ----------------------------------------------------------- connectivity
\* C29: isOnline changes only in the handlers of the platform online and
\* offline events: a failed network request during form submission,
\* dashboard refresh or replay leaves it unchanged.
C29_OnlineChangesOnlyOnPlatformEvents ==
    [][ /\ isOnline' # isOnline => (navOnline' # navOnline /\ isOnline' = navOnline')
        /\ (dash.present /\ dash'.isOnline # dash.isOnline)
              => (navOnline' # navOnline /\ dash'.isOnline = navOnline')
        /\ ( \/ sub.st = "fetching" /\ sub'.st = "done"
             \/ drains' # drains /\ navOnline' = navOnline
             \/ dash.present /\ dash'.refreshing < dash.refreshing )
           => (isOnline' = isOnline /\ dash'.isOnline = dash.isOnline) ]_vars

\* The request of a form submission has been rejected and the manager and
\* the dashboard are online as before.
C29_Witness ==
    /\ sub.st = "done" /\ sub.reply = "reject"
    /\ mgr = "ready" /\ isOnline
    /\ dash.present /\ dash.isOnline /\ dash.refreshing = 0

\* C30: all components see one connectivity value: after any sequence of
\* platform online and offline events, those that arrive while the
\* OfflineManager is still initializing included, OfflineManager.isOnline
\* and OfflineDashboard.isOnline both equal the state set by the most
\* recent platform event.
C30_OneConnectivityValue ==
    /\ mgr # "absent" => isOnline = navOnline
    /\ dash.present => dash.isOnline = navOnline

\* ------------------------------------------------------------ record ids
\* C31: every QueuedAction created by storeOfflineAction gets an id distinct
\* from the id of every other record in the queue, for any sequence of
\* enqueues, several within the same millisecond included, so that no enqueue
\* is rejected or lost because of an earlier one: the ids of the store are
\* pairwise distinct, and a storeOfflineAction called with the database open
\* and a store that does not fail of its own adds its record and returns
\* true, whatever Math.random() gives.
C31_EnqueueNeverRejectedByEarlier ==
    /\ \A i, j \in DOMAIN queue : i # j => queue[i].id # queue[j].id
    /\ db => \A r \in 0..(RandRes - 1) :
                LET s == storeOfflineAction(queue, db, TRUE, now, r)
                IN  /\ s.ret = "true"
                    /\ Len(s.queue) = Len(queue) + 1
                    /\ s.queue[Len(s.queue)].id \notin Ids(queue)

\* ------------------------------------------------------- frame of a drain
\* C32: a drain changes no field of a QueuedAction other than synced, and
\* synced only ever goes from false to true.  Every step of every operation
\* leaves each record in its place with its id and its timestamp and never
\* takes it from synced=true to synced=false, and synced changes only in
\* the step in which the replay of that record, in flight in some pass,
\* settles.
C32_DrainFlipsSyncedOnly ==
    [][ /\ Len(queue') >= Len(queue)
        /\ \A i \in DOMAIN queue :
              /\ queue'[i].id = queue[i].id
              /\ queue'[i].timestamp = queue[i].timestamp
              /\ queue[i].synced => queue'[i].synced
              /\ queue'[i].synced # queue[i].synced
                    => /\ queue[i].id \in InFlight
                       /\ queue[i].id \in acked'
                       /\ drains' # drains /\ navOnline' = navOnline ]_vars

\* A drain has marked a record stored in an earlier millisecond, while a
\* record stored after the pass had started still waits.
C32_Witness ==
    /\ Len(queue) = 2
    /\ queue[1].synced /\ queue[1].id \in acked /\ queue[1].timestamp < now
    /\ ~queue[2].synced /\ queue[2].id \notin acked
    /\ drains = EmptyBag

\* ------------------------------------------------------ the replay request
\* C33: each replay request carries the queued action's stored url, method
\* and body unchanged, the method being POST when the action has none, and
\* the action's stored headers take precedence over the default
\* Content-Type and CSRF headers added at replay time: every stored header
\* is in the request with its stored value, and the two defaults are there
\* with their default values exactly when the action stores no header of
\* that name.
C33_ReplayCarriesStoredRequest ==
    replay.called =>
        LET a == replay.action
            q == replay.request
        IN  /\ q.url = a.url
            /\ q.body = a.body
            /\ q.method = (IF a.method = "absent" THEN "POST" ELSE a.method)
            /\ DOMAIN q.headers = DOMAIN a.headers \cup {"Content-Type", "X-CSRFToken"}
            /\ \A k \in DOMAIN a.headers : q.headers[k] = a.headers[k]
            /\ "Content-Type" \notin DOMAIN a.headers
                  => q.headers["Content-Type"] = "application/json"
            /\ "X-CSRFToken" \notin DOMAIN a.headers
                  => q.headers["X-CSRFToken"] = replay.csrf

\* An action without a method that stores a Content-Type of its own has
\* been replayed as a POST with that Content-Type and the page's token.
C33_Witness ==
    /\ replay.called
    /\ replay.action.method = "absent" /\ replay.request.method = "POST"
    /\ DOMAIN replay.action.headers = {"Content-Type"}
    /\ replay.action.headers["Content-Type"] = "text/plain"
    /\ replay.request.headers["Content-Type"] = "text/plain"
    /\ replay.csrf = "token" /\ replay.request.headers["X-CSRFToken"] = "token"

\* ------------------------------------------------------------ cache writes
\* The caches after one write of body under url into one of them, every
\* other entry as it was.
OneEntryWritten(c, c2, url, body) ==
    \E n \in DOMAIN c :
        c2 = [c EXCEPT ![n] = [u \in DOMAIN c[n] \cup {url} |->
                                  IF u = url THEN body ELSE c[n][u]]]

\* C34: a response is written to a cache only after a network fetch for an
\* intercepted GET request returned an ok response: every step that changes
\* a cache is the end of such a fetch and writes the body the network sent
\* under the url of the request, whole, leaving every other entry alone; a
\* response that is not ok is returned to the caller and not stored.
C34_WrittenOnlyAfterOkFetch ==
    [][ /\ caches' # caches
              => /\ fe.st = "waiting" /\ fe'.st = "done"
                 /\ fe.intercepted /\ fe.request.method = "GET"
                 /\ fe'.outcome = "ok" /\ fe'.wrote
                 /\ OneEntryWritten(caches, caches', requestUrl(fe.request), fe'.sent)
        /\ (fe.st = "waiting" /\ fe'.st = "done" /\ fe'.outcome = "notOk")
              => /\ caches' = caches /\ ~fe'.wrote
                 /\ fe'.resp = networkResponse("notOk", fe'.sent) ]_vars

\* C34, amended: the same of the fetch handlers, a response that is not ok
\* being returned to the caller unless stale-while-revalidate has already
\* answered from the cache; the install handler also writes, the static
\* assets into the static cache and nothing else.
C34_WrittenOnlyAfterOkFetchOrAtInstall ==
    [][ /\ (caches' # caches /\ fe.st # "installing")
              => /\ fe.st = "waiting" /\ fe'.st = "done"
                 /\ fe.intercepted /\ fe.request.method = "GET"
                 /\ fe'.outcome = "ok" /\ fe'.wrote
                 /\ OneEntryWritten(caches, caches', requestUrl(fe.request), fe'.sent)
        /\ (caches' # caches /\ fe.st = "installing")
              => /\ fe'.st = "installed"
                 /\ \A n \in DOMAIN caches : n # STATIC_CACHE => caches'[n] = caches[n]
                 /\ DOMAIN caches'[STATIC_CACHE] = {STATIC_ASSETS[i] : i \in DOMAIN STATIC_ASSETS}
        /\ (fe.st = "waiting" /\ fe'.st = "done" /\ fe'.outcome = "notOk")
              => /\ caches' = caches /\ ~fe'.wrote
                 /\ fe'.resp = IF fe.strategy = "handleStaleWhileRevalidate" /\ fe.hit
                               THEN fe.resp
                               ELSE networkResponse("notOk", fe'.sent) ]_vars

\* A network-first request has replaced, with the newer body of an ok
\* response, the entry an earlier request had stored.
C34_Witness ==
    /\ fe.st = "done"
    /\ fe.strategy = "handleNetworkFirst"
    /\ fe.hit /\ fe.outcome = "ok" /\ fe.wrote
    /\ fe.sent = "newer"
    /\ fe.resp = networkResponse("ok", "newer")
    /\ caches[DYNAMIC_CACHE][requestUrl(fe.request)] = "newer"

\* ------------------------------------------------------------ lazy expiry
\* C35: getCachedData never deletes or modifies any cachedData record, even
\* an expired one: a getCachedData leaves the store as it was, and in every
\* step each record stays stored and unchanged unless the step is a
\* setCachedData for its key that wrote.
C35_ReadLeavesRecords ==
    [][ /\ \A key \in CacheKeys, getOk \in BOOLEAN :
              GetCachedData(key, getOk) => cd'.store = cd.store
        /\ \A k \in DOMAIN cd.store :
              /\ k \in DOMAIN cd'.store
              /\ cd'.store[k] # cd.store[k]
                    => cd'.call = [op |-> "set", key |-> k, failed |-> FALSE, ret |-> "true"] ]_vars

\* A record that expired a millisecond ago has been read, null returned,
\* and the record is stored as the last setCachedData of its key wrote it.
C35_Witness ==
    /\ cd.call.op = "get" /\ ~cd.call.failed /\ cd.call.ret = "null"
    /\ cd.call.key \in DOMAIN cd.store
    /\ cd.store[cd.call.key].expiry < now
    /\ cd.store[cd.call.key].data = cd.last[cd.call.key].data
    /\ cd.store[cd.call.key].timestamp = cd.last[cd.call.key].at

C37_NoReplayWhileOffline ==
    [][ /\ BagCardinality(drains') > BagCardinality(drains) => (isOnline' /\ db)
        /\ ( /\ drains' # drains
             /\ BagCardinality(drains') = BagCardinality(drains) )
           => isOnline ]_vars

\* ------------------------------------------------------- rejected by server
\* C38: an online form submission that the server answers with a status
\* that is not 2xx is reported to the user as an error and is never
\* enqueued: it creates no QueuedAction, returns false, and the page shows
\* an error message and no success message.
C38_ServerErrorNotEnqueued ==
    (sub.st = "done" /\ sub.path = "online" /\ sub.reply \in {"notOk", "notOkBadBody"})
    => /\ sub.enq = 0
       /\ sub.ret = "false"
       /\ \E m \in sub.shown : startsWith(m, "error:")
       /\ \A m \in sub.shown : ~startsWith(m, "success:")

\* ------------------------------------------------------------- namespaces
\* The url of a request contains '/api/': some part of it, from a slash on,
\* starts with '/api/'.
UrlHasApi(url) == \E i \in 1..Len(url) : startsWith(SubSeq(url, i, Len(url)), "/api/")

\* C39: each strategy writes only to its own namespace and leaves the
\* others unchanged: network-first writes only to the dynamic cache,
\* cache-first only to the static cache, and a stale-while-revalidate
\* refresh to the api cache exactly when the url of the request contains
\* '/api/' and otherwise to the dynamic cache.  Stated of every step in
\* which a handler ends: no other cache changes, and a handler that wrote
\* has put the body under the url in the cache of its strategy.
C39_StrategyWritesOwnNamespace ==
    [][ (fe.st = "waiting" /\ fe'.st = "done")
        => LET url == requestUrl(fe.request)
               own == IF fe.strategy = "handleNetworkFirst" THEN "ficore-dynamic-v2.1"
                      ELSE IF fe.strategy = "handleCacheFirst" THEN "ficore-static-v2.1"
                      ELSE IF UrlHasApi(url) THEN "ficore-api-v2.1"
                      ELSE "ficore-dynamic-v2.1"
           IN  /\ \A n \in DOMAIN caches : n # own => caches'[n] = caches[n]
               /\ fe'.wrote => (url \in DOMAIN caches'[own] /\ caches'[own][url] = fe'.sent)
               /\ ~fe'.wrote => caches' = caches ]_vars

\* A stale-while-revalidate refresh of a url with '/api/' in it has written
\* the api cache, the other two caches holding nothing of it.
C39_Witness ==
    /\ fe.st = "done"
    /\ fe.strategy = "handleStaleWhileRevalidate"
    /\ fe.request.pathname = "/api/offline/cache/k"
    /\ fe.wrote
    /\ "/api/offline/cache/k" \in DOMAIN caches[API_CACHE]
    /\ "/api/offline/cache/k" \notin DOMAIN caches[DYNAMIC_CACHE]
    /\ "/api/offline/cache/k" \notin DOMAIN caches[STATIC_CACHE]

\* ------------------------------------------------------------- validation
\* C40: a submission of an offline-capable form that has an empty required
\* field creates no QueuedAction and sends no network request, whether the
\* application is online or offline.
C40_InvalidFormNeitherQueuedNorSent ==
    [][ \A form \in Forms, addOk \in BOOLEAN, lsOk \in BOOLEAN, r \in 0..(RandRes - 1) :
          (SubmitEvent(form, addOk, lsOk, r) /\ form.empty)
          => /\ queue' = queue
             /\ sub'.enq = 0 /\ sub'.net = 0
             /\ sub'.st # "fetching" ]_vars

====
